---- MODULE Spec2Model ----
(***************************************************************************)
(* A model of the KEVin charging controller (src/charger.py).             *)
(*                                                                         *)
(* Numbers.  Percentages (state of charge) and amps are integers.  Power  *)
(* is carried in units of 1/Scale watt, so that the products with the     *)
(* float charge_efficiency_factor (kept as a percentage, field            *)
(* charge_efficiency_pct) stay exact integers.  Time is in seconds; the   *)
(* wall clock of time.localtime() is the epoch clock of time.time() taken *)
(* modulo one day.                                                         *)
(***************************************************************************)
EXTENDS Integers, Sequences, FiniteSets, TLC

VARIABLES
    config,                       \* c = Config(), immutable per run
    pc,                           \* position of the process (__main__ / main)
    stop_cause,                   \* why the outer loop of __main__ ended
    was_manual,                   \* main: was_manual
    remembered_charging_enabled,  \* main: remembered_charging_enabled
    remembered_charging_amps,     \* main: remembered_charging_amps
    nightly_state,                \* the module-level NightlyChargingState
    now,                          \* the clock: time.time(), in seconds
    cycle,                        \* what the last iteration of main's loop saw and did
    writes,                       \* actuation writes issued by the last step
    notifications,                \* notifications sent by the last step
    call,                         \* the last call of a function called on its own
    cls                           \* the last call of handle_unexpected_charging_change

vars == <<config, pc, stop_cause, was_manual, remembered_charging_enabled,
          remembered_charging_amps, nightly_state, now, cycle, writes,
          notifications, call, cls>>

-----------------------------------------------------------------------------
(* Representation *)

\* float('nan'): a car SOC that is not available
NaN == -1

\* power is carried in 1/Scale watt
Scale == 100

\* 24 * 3600
Day == 86400

\* the epoch second at which the model's first day starts (a midnight)
Epoch0 == 864000

Max(a, b) == IF a >= b THEN a ELSE b
Min(a, b) == IF a <= b THEN a ELSE b

\* math.ceil(a / b) for a >= 0, b > 0
CeilDiv(a, b) == (a + b - 1) \div b

\* time.localtime() as seconds since midnight
TimeOfDay(t) == t % Day

-----------------------------------------------------------------------------
(* Bounds of the model *)

\* the clock of a run starts at one of the hours StartHour .. StartHour + StartSpan
StartHour == 22
StartSpan == 0
\* no step is taken after Epoch0 + MaxHours hours
MaxHours == 32

EndOfTime == Epoch0 + MaxHours * 3600

\* the clock of a planner run starts at the hour PlannerStartHour and the run
\* makes no call more than PlannerHours hours later
PlannerStartHour == 26
PlannerHours == 5

PlannerEnd == Epoch0 + (PlannerStartHour + PlannerHours) * 3600

-----------------------------------------------------------------------------
(* Config (src/config.py): the values of one installation *)

Config1 ==
    [ min_amps |-> 6, max_amps |-> 16, min_power |-> 1380,
      vehicle_battery_capacity |-> 75000, phases |-> 3, volts |-> 230,
      poll_interval |-> 3600, charge_efficiency_pct |-> 90,
      nightly_start |-> 79200, nightly_end |-> 21600,
      nightly_recalc_interval |-> 5400,
      tesla_schedule_start |-> 75600,
      battery_soc_no_charging |-> 10, battery_soc_reserve |-> 20,
      battery_power_reserve |-> 3000,
      battery_soc_peak_shaving_minimal |-> 60,
      battery_power_peak_shaving_minimal |-> 6000,
      battery_power_peak_shaving |-> 11000 ]

Configs == {Config1}

-----------------------------------------------------------------------------
(* Enumerations *)

\* class BatteryLoadStrategy
BatteryLoadStrategy == {"PeakShaving", "PeakShavingMininal", "Reserve", "NoCharging"}

\* class ChargingPowerSource
ChargingPowerSource == {"NoCharing", "SolarOnly", "MinPlusSolar", "MinBatteryLoad", "Full"}

\* class ChargingPlan, in definition order (the order of iteration in main)
PlanOrder == <<"Manual", "SolarOnly", "MinPlusSolar", "Nightly",
               "SolarPlusNightly", "MinBatteryLoad", "MaxSpeed">>

ChargingPlan == {PlanOrder[i] : i \in 1..Len(PlanOrder)}

\* class UnexpectedChangeResult
UnexpectedChangeResult == {"Expected", "Disconnected", "Scheduled", "Ignored", "Manual"}

-----------------------------------------------------------------------------
(* Battery strategy and power sources *)

\* from_soc with the first two tests returning each other's strategy
from_soc_reserve_first(soc, c) ==
    IF soc # NaN /\ soc < c.battery_soc_no_charging THEN "Reserve"
    ELSE IF soc # NaN /\ soc < c.battery_soc_reserve THEN "NoCharging"
    ELSE IF soc # NaN /\ soc < c.battery_soc_peak_shaving_minimal THEN "PeakShavingMininal"
    ELSE "PeakShaving"

\* BatteryLoadStrategy.from_soc; every comparison with a NaN soc is false
from_soc(soc, c) ==
    IF soc # NaN /\ soc < c.battery_soc_no_charging THEN "NoCharging"
    ELSE IF soc # NaN /\ soc < c.battery_soc_reserve THEN "Reserve"
    ELSE IF soc # NaN /\ soc < c.battery_soc_peak_shaving_minimal THEN "PeakShavingMininal"
    ELSE "PeakShaving"

\* BatteryLoadStrategy.max_charing_power_with_grid, in watts
max_charing_power_with_grid(strategy, c) ==
    IF strategy = "NoCharging" THEN 0
    ELSE IF strategy = "Reserve" THEN c.battery_power_reserve
    ELSE IF strategy = "PeakShavingMininal" THEN c.battery_power_peak_shaving_minimal
    ELSE c.battery_power_peak_shaving

\* c.min_power * c.charge_efficiency_factor, in 1/Scale watt
MinPowerScaled(c) == c.min_power * c.charge_efficiency_pct

\* get_max_power whose Full source returns the balance without max(0, ...)
get_max_power_unclamped(ps, c, pv_power, total_load, battery_load, battery_strategy) ==
    IF max_charing_power_with_grid(battery_strategy, c) * Scale < MinPowerScaled(c) THEN 0
    ELSE IF ps = "NoCharing" THEN 0
    ELSE IF ps = "SolarOnly" THEN Max(0, (pv_power - total_load) * Scale)
    ELSE IF ps = "MinPlusSolar" THEN Max(MinPowerScaled(c), (pv_power - total_load) * Scale)
    ELSE IF ps = "MinBatteryLoad" THEN
        LET bs == IF battery_strategy = "PeakShaving" THEN "PeakShavingMininal"
                  ELSE battery_strategy
        IN  Max(0, (pv_power - total_load - battery_load
                    + max_charing_power_with_grid(bs, c)) * Scale)
    ELSE (pv_power - total_load + max_charing_power_with_grid(battery_strategy, c)) * Scale

\* get_max_power without the test of the strategy's ceiling (lines 45-47)
get_max_power_no_guard(ps, c, pv_power, total_load, battery_load, battery_strategy) ==
    IF ps = "NoCharing" THEN 0
    ELSE IF ps = "SolarOnly" THEN Max(0, (pv_power - total_load) * Scale)
    ELSE IF ps = "MinPlusSolar" THEN Max(MinPowerScaled(c), (pv_power - total_load) * Scale)
    ELSE IF ps = "MinBatteryLoad" THEN
        LET bs == IF battery_strategy = "PeakShaving" THEN "PeakShavingMininal"
                  ELSE battery_strategy
        IN  Max(0, (pv_power - total_load - battery_load
                    + max_charing_power_with_grid(bs, c)) * Scale)
    ELSE Max(0, (pv_power - total_load + max_charing_power_with_grid(battery_strategy, c)) * Scale)

\* get_max_power without lines 54-55: MinBatteryLoad keeps the PeakShaving ceiling
get_max_power_full_ceiling(ps, c, pv_power, total_load, battery_load, battery_strategy) ==
    IF max_charing_power_with_grid(battery_strategy, c) * Scale < MinPowerScaled(c) THEN 0
    ELSE IF ps = "NoCharing" THEN 0
    ELSE IF ps = "SolarOnly" THEN Max(0, (pv_power - total_load) * Scale)
    ELSE IF ps = "MinPlusSolar" THEN Max(MinPowerScaled(c), (pv_power - total_load) * Scale)
    ELSE IF ps = "MinBatteryLoad" THEN
        Max(0, (pv_power - total_load - battery_load
                + max_charing_power_with_grid(battery_strategy, c)) * Scale)
    ELSE Max(0, (pv_power - total_load + max_charing_power_with_grid(battery_strategy, c)) * Scale)

\* ChargingPowerSource.get_max_power; inputs in watts, result in 1/Scale watt
get_max_power(ps, c, pv_power, total_load, battery_load, battery_strategy) ==
    IF max_charing_power_with_grid(battery_strategy, c) * Scale < MinPowerScaled(c) THEN 0
    ELSE IF ps = "NoCharing" THEN 0
    ELSE IF ps = "SolarOnly" THEN Max(0, (pv_power - total_load) * Scale)
    ELSE IF ps = "MinPlusSolar" THEN Max(MinPowerScaled(c), (pv_power - total_load) * Scale)
    ELSE IF ps = "MinBatteryLoad" THEN
        LET bs == IF battery_strategy = "PeakShaving" THEN "PeakShavingMininal"
                  ELSE battery_strategy
        IN  Max(0, (pv_power - total_load - battery_load
                    + max_charing_power_with_grid(bs, c)) * Scale)
    ELSE Max(0, (pv_power - total_load + max_charing_power_with_grid(battery_strategy, c)) * Scale)

-----------------------------------------------------------------------------
(* Time windows *)

\* get_nightly_time without line 73: a time before nightly_start is not moved
\* to the next day
get_nightly_time_no_day_shift(c, time_now) ==
    IF time_now > c.nightly_end /\ time_now < c.nightly_start
    THEN [fault |-> "none", is_night |-> FALSE, remaining_time_s |-> 0]
    ELSE IF c.nightly_end < c.nightly_start
         THEN [fault |-> "none", is_night |-> TRUE,
               remaining_time_s |-> (c.nightly_end + Day) - time_now]
         ELSE [fault |-> "UnboundLocalError", is_night |-> FALSE, remaining_time_s |-> 0]

\* get_nightly_time at wall-clock second time_now.  time_end is assigned only
\* when the window crosses midnight; reading it otherwise is an UnboundLocalError.
get_nightly_time(c, time_now) ==
    IF time_now > c.nightly_end /\ time_now < c.nightly_start
    THEN [fault |-> "none", is_night |-> FALSE, remaining_time_s |-> 0]
    ELSE LET adjusted == IF time_now < c.nightly_start THEN time_now + Day ELSE time_now
         IN  IF c.nightly_end < c.nightly_start
             THEN [fault |-> "none", is_night |-> TRUE,
                   remaining_time_s |-> (c.nightly_end + Day) - adjusted]
             ELSE [fault |-> "UnboundLocalError", is_night |-> FALSE, remaining_time_s |-> 0]

\* is_scheduled_charging_time at wall-clock second time_now
is_scheduled_charging_time(c, time_now) ==
    LET time_start == c.tesla_schedule_start
        time_end   == time_start + 6 * 3600
    IN  IF time_end > Day
        THEN time_start <= time_now \/ time_now <= time_end % Day
        ELSE time_start <= time_now /\ time_now <= time_end

\* ChargingPlan.get_power_source at wall-clock second time_now
get_power_source(plan, c, time_now) ==
    IF plan = "Manual" THEN [fault |-> "none", ps |-> "Full"]
    ELSE IF plan = "SolarOnly" THEN [fault |-> "none", ps |-> "SolarOnly"]
    ELSE IF plan = "MinPlusSolar" THEN [fault |-> "none", ps |-> "MinPlusSolar"]
    ELSE IF plan = "Nightly" THEN [fault |-> "none", ps |-> "Full"]
    ELSE IF plan = "SolarPlusNightly" THEN
        LET n == get_nightly_time(c, time_now)
        IN  [fault |-> n.fault, ps |-> IF n.is_night THEN "Full" ELSE "SolarOnly"]
    ELSE IF plan = "MinBatteryLoad" THEN [fault |-> "none", ps |-> "MinBatteryLoad"]
    ELSE IF plan = "MaxSpeed" THEN [fault |-> "none", ps |-> "Full"]
    ELSE [fault |-> "none", ps |-> "NoCharing"]

-----------------------------------------------------------------------------
(* NightlyChargingState; cached_amps is <<>> for None and <<a>> for a value *)

\* NightlyChargingState.__init__ and NightlyChargingState.reset
reset == [last_calc_time |-> 0, cached_amps |-> <<>>]

\* should_recalculate comparing the clock itself, not the time elapsed since
\* last_calc_time, with the interval
should_recalculate_no_elapsed(ns, recalc_interval, t) == t > recalc_interval

\* NightlyChargingState.should_recalculate at clock t
should_recalculate(ns, recalc_interval, t) == t - ns.last_calc_time > recalc_interval

\* update that stores the amps without the time of the computation
update_no_time(amps, t) == [last_calc_time |-> 0, cached_amps |-> <<amps>>]

\* NightlyChargingState.update at clock t
update(amps, t) == [last_calc_time |-> t, cached_amps |-> <<amps>>]

-----------------------------------------------------------------------------
(* The amps planner *)

\* the write api.set_charging_plan(plan)
SetChargingPlan(plan) == <<"set_charging_plan", plan>>
\* the write api.set_charging(charging)
SetCharging(charging) == <<"set_charging", charging>>
\* the write api.set_charging_amps(amps)
SetChargingAmps(amps) == <<"set_charging_amps", amps>>

\* what one call of calculate_charging_amps returns and does: the amps returned,
\* the nightly state it leaves, the writes it issued, the exception it raised
\* (if any) and the branch it took
Returned(amps, ns, path) ==
    [amps |-> amps, ns |-> ns, writes |-> <<>>, fault |-> "none", path |-> path]

\* max_amps rounded up instead of down
max_amps_from_budget_ceil(c, max_power) ==
    CeilDiv(max_power, c.phases * c.volts * c.charge_efficiency_pct)

\* floor(max_power / (phases * volts * charge_efficiency_factor))
max_amps_from_budget(c, max_power) ==
    max_power \div (c.phases * c.volts * c.charge_efficiency_pct)

\* the end-of-night test with one poll interval in place of 1.2
end_of_night_one_poll(c, remaining_time_s) == remaining_time_s < c.poll_interval

\* remaining_time_s < 1.2 * c.poll_interval
end_of_night(c, remaining_time_s) == 10 * remaining_time_s < 12 * c.poll_interval

\* required_amps rounded down instead of up
required_amps_floor(c, current_soc, limit_soc, remaining_time_s) ==
    (c.vehicle_battery_capacity * (limit_soc - current_soc) * 36)
        \div (remaining_time_s * c.volts * c.phases)

\* math.ceil(required_amps), lines 354-359: capacity * (limit - soc) / 100 over
\* (remaining_time_s / 3600) * volts * phases, with 3600 / 100 reduced to 36
required_amps_ceil(c, current_soc, limit_soc, remaining_time_s) ==
    CeilDiv(c.vehicle_battery_capacity * (limit_soc - current_soc) * 36,
            remaining_time_s * c.volts * c.phases)

\* the nightly branch without lines 347-349: a cached value is returned as it is
nightly_branch_no_reclamp(c, max_amps, current_soc, limit_soc, n, ns, t, api_ok) ==
    IF ~n.is_night THEN Returned(0, reset, "not_night")
    ELSE IF end_of_night(c, n.remaining_time_s) THEN
        IF api_ok
        THEN [amps |-> max_amps, ns |-> reset,
              writes |-> <<SetChargingPlan("MaxSpeed")>>,
              fault |-> "none", path |-> "escalate"]
        ELSE [amps |-> 0, ns |-> ns, writes |-> <<>>,
              fault |-> "HTTPError", path |-> "escalate"]
    ELSE IF ~should_recalculate(ns, c.nightly_recalc_interval, t) /\ ns.cached_amps # <<>> THEN
        LET target_amps == ns.cached_amps[1]
        IN  Returned(target_amps, ns, "cached")
    ELSE
        LET ceiled    == required_amps_ceil(c, current_soc, limit_soc, n.remaining_time_s)
            raised    == IF ceiled < c.min_amps THEN c.min_amps ELSE ceiled
            amps_plan == IF raised > max_amps THEN max_amps ELSE raised
        IN  Returned(amps_plan, update(amps_plan, t), "computed")

\* the nightly branch of calculate_charging_amps, lines 330-370
nightly_branch(c, max_amps, current_soc, limit_soc, n, ns, t, api_ok) ==
    IF ~n.is_night THEN Returned(0, reset, "not_night")
    ELSE IF end_of_night(c, n.remaining_time_s) THEN
        IF api_ok
        THEN [amps |-> max_amps, ns |-> reset,
              writes |-> <<SetChargingPlan("MaxSpeed")>>,
              fault |-> "none", path |-> "escalate"]
        ELSE [amps |-> 0, ns |-> ns, writes |-> <<>>,
              fault |-> "HTTPError", path |-> "escalate"]
    ELSE IF ~should_recalculate(ns, c.nightly_recalc_interval, t) /\ ns.cached_amps # <<>> THEN
        LET target_amps == ns.cached_amps[1]
        IN  IF target_amps > max_amps
            THEN Returned(max_amps, ns, "cached_clamped")
            ELSE Returned(target_amps, ns, "cached")
    ELSE
        LET ceiled    == required_amps_ceil(c, current_soc, limit_soc, n.remaining_time_s)
            raised    == IF ceiled < c.min_amps THEN c.min_amps ELSE ceiled
            amps_plan == IF raised > max_amps THEN max_amps ELSE raised
        IN  Returned(amps_plan, update(amps_plan, t), "computed")

\* calculate_charging_amps without line 373: the other plans keep the nightly state
calculate_charging_amps_keeps_cache(c, plan, max_power, current_soc, limit_soc, ns, t, api_ok) ==
    IF current_soc = NaN THEN Returned(0, ns, "soc_nan")
    ELSE IF current_soc >= limit_soc THEN Returned(0, ns, "car_full")
    ELSE IF max_power < MinPowerScaled(c) THEN Returned(0, ns, "no_power")
    ELSE
    LET max_amps == max_amps_from_budget(c, max_power)
        windowed == plan \in {"SolarPlusNightly", "Nightly"}
        n        == IF windowed THEN get_nightly_time(c, TimeOfDay(t))
                    ELSE [fault |-> "none", is_night |-> FALSE, remaining_time_s |-> 0]
        resolved == IF plan = "SolarPlusNightly"
                    THEN (IF n.is_night THEN "Nightly" ELSE "SolarOnly")
                    ELSE plan
    IN  IF max_amps < c.min_amps THEN Returned(0, ns, "below_min_amps")
        ELSE IF n.fault # "none"
        THEN [amps |-> 0, ns |-> ns, writes |-> <<>>, fault |-> n.fault, path |-> "fault"]
        ELSE IF resolved = "Nightly"
        THEN nightly_branch(c, max_amps, current_soc, limit_soc, n, ns, t, api_ok)
        ELSE IF resolved \in {"Manual", "SolarOnly", "MinPlusSolar", "MinBatteryLoad", "MaxSpeed"}
        THEN Returned(Min(max_amps, c.max_amps), ns, "max_available")
        ELSE Returned(0, reset, "unknown_plan")

\* calculate_charging_amps whose car-is-full guard also resets the nightly state
calculate_charging_amps_full_resets(c, plan, max_power, current_soc, limit_soc, ns, t, api_ok) ==
    IF current_soc = NaN THEN Returned(0, ns, "soc_nan")
    ELSE IF current_soc >= limit_soc THEN Returned(0, reset, "car_full")
    ELSE IF max_power < MinPowerScaled(c) THEN Returned(0, ns, "no_power")
    ELSE
    LET max_amps == max_amps_from_budget(c, max_power)
        windowed == plan \in {"SolarPlusNightly", "Nightly"}
        n        == IF windowed THEN get_nightly_time(c, TimeOfDay(t))
                    ELSE [fault |-> "none", is_night |-> FALSE, remaining_time_s |-> 0]
        resolved == IF plan = "SolarPlusNightly"
                    THEN (IF n.is_night THEN "Nightly" ELSE "SolarOnly")
                    ELSE plan
    IN  IF max_amps < c.min_amps THEN Returned(0, ns, "below_min_amps")
        ELSE IF n.fault # "none"
        THEN [amps |-> 0, ns |-> ns, writes |-> <<>>, fault |-> n.fault, path |-> "fault"]
        ELSE IF resolved = "Nightly"
        THEN nightly_branch(c, max_amps, current_soc, limit_soc, n, ns, t, api_ok)
        ELSE IF resolved \in {"Manual", "SolarOnly", "MinPlusSolar", "MinBatteryLoad", "MaxSpeed"}
        THEN Returned(Min(max_amps, c.max_amps), reset, "max_available")
        ELSE Returned(0, reset, "unknown_plan")

\* calculate_charging_amps(c, plan, max_power, current_soc, limit_soc), called
\* with the nightly state ns at clock t; api_ok says whether a write succeeds
calculate_charging_amps(c, plan, max_power, current_soc, limit_soc, ns, t, api_ok) ==
    IF current_soc = NaN THEN Returned(0, ns, "soc_nan")
    ELSE IF current_soc >= limit_soc THEN Returned(0, ns, "car_full")
    ELSE IF max_power < MinPowerScaled(c) THEN Returned(0, ns, "no_power")
    ELSE
    LET max_amps == max_amps_from_budget(c, max_power)
        windowed == plan \in {"SolarPlusNightly", "Nightly"}
        n        == IF windowed THEN get_nightly_time(c, TimeOfDay(t))
                    ELSE [fault |-> "none", is_night |-> FALSE, remaining_time_s |-> 0]
        resolved == IF plan = "SolarPlusNightly"
                    THEN (IF n.is_night THEN "Nightly" ELSE "SolarOnly")
                    ELSE plan
    IN  IF max_amps < c.min_amps THEN Returned(0, ns, "below_min_amps")
        ELSE IF n.fault # "none"
        THEN [amps |-> 0, ns |-> ns, writes |-> <<>>, fault |-> n.fault, path |-> "fault"]
        ELSE IF resolved = "Nightly"
        THEN nightly_branch(c, max_amps, current_soc, limit_soc, n, ns, t, api_ok)
        ELSE IF resolved \in {"Manual", "SolarOnly", "MinPlusSolar", "MinBatteryLoad", "MaxSpeed"}
        THEN Returned(Min(max_amps, c.max_amps), reset, "max_available")
        ELSE Returned(0, reset, "unknown_plan")

\* the guards of lines 299-319 pass: the call reaches the plan's branch
guards_pass(c, max_power, current_soc, limit_soc) ==
    /\ current_soc # NaN
    /\ current_soc < limit_soc
    /\ max_power >= MinPowerScaled(c)
    /\ max_amps_from_budget(c, max_power) >= c.min_amps

-----------------------------------------------------------------------------
(* The mode transition classifier *)

\* what one call of handle_unexpected_charging_change returns and does
Classified(result, slept) == [result |-> result, slept |-> slept, fault |-> "none"]

\* handle_unexpected_charging_change without the re-read of the connection:
\* every unexpected stop counts as a disconnection
handle_unexpected_no_reread(c, charging, charging_amps, remembered_enabled, remembered_amps, reread, t) ==
    IF remembered_enabled = charging /\ remembered_amps = charging_amps
    THEN Classified("Expected", FALSE)
    ELSE IF remembered_enabled # charging /\ ~charging
    THEN Classified("Disconnected", TRUE)
    ELSE IF remembered_enabled # charging /\ charging
            /\ is_scheduled_charging_time(c, TimeOfDay(t))
    THEN Classified("Scheduled", FALSE)
    ELSE IF remembered_amps # charging_amps /\ ~charging
    THEN Classified("Ignored", FALSE)
    ELSE Classified("Manual", FALSE)

\* handle_unexpected_charging_change with line 418 reading
\* "if charging_amps_changed:" (the test of "not charging" dropped)
handle_unexpected_any_amps(c, charging, charging_amps, remembered_enabled, remembered_amps, reread, t) ==
    LET charging_changed      == remembered_enabled # charging
        charging_amps_changed == remembered_amps # charging_amps
        slept                 == charging_changed /\ ~charging
        t_after               == IF slept THEN t + c.poll_interval ELSE t
    IN  IF ~charging_changed /\ ~charging_amps_changed THEN Classified("Expected", FALSE)
        ELSE IF slept /\ reread = "HTTPError"
        THEN [result |-> "none", slept |-> TRUE, fault |-> "HTTPError"]
        ELSE IF slept /\ reread # "on" THEN Classified("Disconnected", TRUE)
        ELSE IF charging_changed /\ charging
                /\ is_scheduled_charging_time(c, TimeOfDay(t_after))
        THEN Classified("Scheduled", slept)
        ELSE IF charging_amps_changed THEN Classified("Ignored", slept)
        ELSE Classified("Manual", slept)

\* handle_unexpected_charging_change(c, charging, charging_amps,
\* remembered_charging_enabled, remembered_charging_amps) called at clock t;
\* reread is what the template of api.get_charger_connected() yields after the
\* wait ("on", "off", or the read raises httpx.HTTPError)
handle_unexpected_charging_change(c, charging, charging_amps, remembered_enabled, remembered_amps, reread, t) ==
    LET charging_changed      == remembered_enabled # charging
        charging_amps_changed == remembered_amps # charging_amps
        slept                 == charging_changed /\ ~charging
        t_after               == IF slept THEN t + c.poll_interval ELSE t
    IN  IF remembered_enabled = charging /\ remembered_amps = charging_amps
        THEN Classified("Expected", FALSE)
        ELSE IF slept /\ reread = "HTTPError"
        THEN [result |-> "none", slept |-> TRUE, fault |-> "HTTPError"]
        ELSE IF slept /\ reread # "on" THEN Classified("Disconnected", TRUE)
        ELSE IF charging_changed /\ charging
                /\ is_scheduled_charging_time(c, TimeOfDay(t_after))
        THEN Classified("Scheduled", slept)
        ELSE IF charging_amps_changed /\ ~charging THEN Classified("Ignored", slept)
        ELSE Classified("Manual", slept)

-----------------------------------------------------------------------------
(* Inputs the environment can supply *)

\* values of the charging-amps sensor
AmpsReadings == {0, 10, 16}

\* what the template of the charger-connected sensor yields, or the read fails
ConnectedReads == {"on", "off", "HTTPError"}

\* the clock at the start of a run
StartTimes == {Epoch0 + h * 3600 : h \in StartHour .. (StartHour + StartSpan)}

\* time that passes between two steps of a unit run
TickSeconds == 3600

-----------------------------------------------------------------------------
(* Values of the history variables before anything has run *)

NoCycle == [outcome |-> "none"]
NoCall  == [path |-> "none"]
NoCls   == [result |-> "none"]

\* the variables of the control loop, idle (unit runs of one function)
LoopIdle ==
    /\ pc = "unit"
    /\ stop_cause = "none"
    /\ was_manual = FALSE
    /\ remembered_charging_enabled = FALSE
    /\ remembered_charging_amps = 0
    /\ cycle = NoCycle
    /\ writes = <<>>
    /\ notifications = <<>>

loop_vars == <<pc, stop_cause, was_manual, remembered_charging_enabled,
               remembered_charging_amps, cycle, writes, notifications>>

-----------------------------------------------------------------------------
(* SpecClassifier: handle_unexpected_charging_change on every input *)

InitClassifier ==
    /\ config \in Configs
    /\ LoopIdle
    /\ nightly_state = reset
    /\ now \in StartTimes
    /\ call = NoCall
    /\ cls = NoCls

\* one call of handle_unexpected_charging_change
ClassifierCall ==
    /\ now + config.poll_interval <= EndOfTime
    /\ \E charging \in BOOLEAN, charging_amps \in AmpsReadings,
          remembered_enabled \in BOOLEAN, remembered_amps \in AmpsReadings,
          reread \in ConnectedReads :
          LET r == handle_unexpected_charging_change(config, charging, charging_amps,
                        remembered_enabled, remembered_amps, reread, now)
          IN  /\ cls' = [charging |-> charging, charging_amps |-> charging_amps,
                         remembered_enabled |-> remembered_enabled,
                         remembered_amps |-> remembered_amps,
                         reread |-> reread, time |-> now,
                         result |-> r.result, slept |-> r.slept, fault |-> r.fault]
              /\ now' = IF r.slept THEN now + config.poll_interval ELSE now
    /\ UNCHANGED <<config, nightly_state, call>>
    /\ UNCHANGED loop_vars

\* time passes between calls
ClassifierTick ==
    /\ now + TickSeconds <= EndOfTime
    /\ now' = now + TickSeconds
    /\ UNCHANGED <<config, nightly_state, call, cls>>
    /\ UNCHANGED loop_vars

NextClassifier == ClassifierCall \/ ClassifierTick

SpecClassifier == InitClassifier /\ [][NextClassifier]_vars

-----------------------------------------------------------------------------
(* SpecPlanner: calls of calculate_charging_amps, one after another *)

\* power budgets passed as max_power, in watts
BudgetWatts == {0, 2000, 5000, 13000}

\* car state of charge readings, percent (NaN: not available)
CarSocs == {NaN, 50, 78, 90}

\* charging limits, percent
ChargingLimits == {80}

InitPlanner ==
    /\ config \in Configs
    /\ LoopIdle
    /\ nightly_state = reset
    /\ now = Epoch0 + PlannerStartHour * 3600
    /\ call = NoCall
    /\ cls = NoCls

\* time that passes between two calls
CallGaps == {0, TickSeconds, 2 * TickSeconds}

\* whether a write of the call can fail: only the nightly plans write
ApiOutcomes(plan) == IF plan \in {"Nightly", "SolarPlusNightly"} THEN BOOLEAN ELSE {TRUE}

\* time passes, and calculate_charging_amps is called once
PlannerCall ==
    /\ \E gap \in CallGaps, plan \in ChargingPlan, watts \in BudgetWatts,
          current_soc \in CarSocs, limit_soc \in ChargingLimits :
          \E api_ok \in ApiOutcomes(plan) :
          LET t == now + gap
              r == calculate_charging_amps(config, plan, watts * Scale, current_soc,
                                           limit_soc, nightly_state, t, api_ok)
          IN  /\ t <= PlannerEnd
              /\ now' = t
              /\ call' = [plan |-> plan, max_power |-> watts * Scale,
                          current_soc |-> current_soc, limit_soc |-> limit_soc,
                          time |-> t, amps |-> r.amps, path |-> r.path,
                          fault |-> r.fault, writes |-> r.writes]
              /\ nightly_state' = r.ns
    /\ UNCHANGED <<config, cls>>
    /\ UNCHANGED loop_vars

NextPlanner == PlannerCall

SpecPlanner == InitPlanner /\ [][NextPlanner]_vars

-----------------------------------------------------------------------------
(* The control loop: main and the outer loop of __main__ *)

\* the clock of a run of the controller starts at the hour LoopStartHour and
\* no cycle starts more than LoopHours hours later
LoopStartHour == 28
LoopHours == 3

LoopEnd == Epoch0 + (LoopStartHour + LoopHours) * 3600

\* the notification api.notification('KEVin', message)
Notify(message) == <<"notify", message>>

\* telemetry of one cycle: top-up limit, inverter SOC, car SOC, charging limit
\* (percent), battery load, total load and PV power (watts)
Snapshots ==
    { [top_up_limit |-> 70, inverter_soc |-> 90, car_soc |-> 50, charging_limit |-> 80,
       battery_load |-> 500, total_load |-> 1000, pv_power |-> 6000],
      [top_up_limit |-> 70, inverter_soc |-> 90, car_soc |-> 75, charging_limit |-> 80,
       battery_load |-> 0, total_load |-> 500, pv_power |-> 0],
      [top_up_limit |-> 70, inverter_soc |-> 5, car_soc |-> 50, charging_limit |-> 80,
       battery_load |-> 0, total_load |-> 1000, pv_power |-> 3000],
      [top_up_limit |-> 70, inverter_soc |-> 50, car_soc |-> NaN, charging_limit |-> 80,
       battery_load |-> -500, total_load |-> 1000, pv_power |-> 3000] }

\* values of the charging-amps sensor seen by the loop
LoopAmpsReadings == {0, 16}

\* what the template of the charging-plan sensor yields
PlanReads == ChargingPlan \cup {"Unknown"}

\* WigaunApi.get_charging_plan: ChargingPlan(value) raises ValueError for a
\* value that is no plan, and the handler catches KeyError only
get_charging_plan(read) ==
    IF read \in ChargingPlan THEN [fault |-> "none", plan |-> read]
    ELSE [fault |-> "ValueError", plan |-> "Manual"]

\* main, line 476: the budget of every power source
power_sources(c, snap) ==
    [ps \in ChargingPowerSource |->
        get_max_power(ps, c, snap.pv_power, snap.total_load, snap.battery_load,
                      from_soc(snap.inverter_soc, c))]

\* main, lines 483-487: the call of calculate_charging_amps for one plan, from
\* the accumulated acc; an exception is kept in acc.fault
\* (the clock reads of get_power_source and of calculate_charging_amps are
\* taken at the same second t here; SolarPlusNightlyCall separates them)
plan_step(c, snap, budgets, t, plan, acc) ==
    LET src == get_power_source(plan, c, TimeOfDay(t))
    IN  IF src.fault # "none" THEN [acc EXCEPT !.fault = src.fault]
        ELSE LET r == calculate_charging_amps(c, plan, budgets[src.ps], snap.car_soc,
                           snap.charging_limit, acc.ns, t, acc.api_ok)
             IN  [ns |-> r.ns, api_ok |-> acc.api_ok,
                  amps |-> [acc.amps EXCEPT ![plan] = r.amps],
                  paths |-> [acc.paths EXCEPT ![plan] = r.path],
                  writes |-> acc.writes \o r.writes,
                  fault |-> r.fault]

\* main, lines 481-487: the calls for the plans PlanOrder[i..], in order; an
\* exception ends the loop.  (Each step's result is bound as a value before
\* the next step reads it.)
RECURSIVE plan_loop(_, _, _, _, _, _)
plan_loop(c, snap, budgets, t, i, acc) ==
    IF i > Len(PlanOrder) \/ acc.fault # "none" THEN acc
    ELSE CHOOSE res \in { plan_loop(c, snap, budgets, t, i + 1, a) :
                            a \in {plan_step(c, snap, budgets, t, PlanOrder[i], acc)} } : TRUE

\* all_charging_amps of one cycle, with the nightly state, writes and
\* exception the seven calls leave
all_charging_amps(c, snap, ns, t, api_ok) ==
    CHOOSE res \in { plan_loop(c, snap, b, t, 1,
                        [ns |-> ns, api_ok |-> api_ok,
                         amps |-> [p \in ChargingPlan |-> 0],
                         paths |-> [p \in ChargingPlan |-> "none"],
                         writes |-> <<>>, fault |-> "none"]) :
                     b \in {power_sources(c, snap)} } : TRUE

\* main, line 547: the call passes six positional arguments (c, api, charging,
\* charging_amps, remembered_charging_enabled, remembered_charging_amps) to a
\* function of five parameters, which raises TypeError before its body runs
call_handle_unexpected(c, charging, charging_amps, remembered_enabled, remembered_amps, reread, t) ==
    [result |-> "none", slept |-> FALSE, fault |-> "TypeError"]

\* reconcile without the test of the top-up limit (lines 588-591)
reconcile_no_top_up(c, in, target, m) ==
    IF target = 0 THEN
        IF in.charging THEN
            IF ~in.api_ok THEN [m EXCEPT !.outcome = "fault", !.fault = "HTTPError"]
            ELSE [m EXCEPT !.writes = @ \o <<SetCharging(FALSE)>>,
                           !.remembered_charging_enabled = FALSE,
                           !.notifications = @ \o <<Notify("Polnjenje koncano")>>,
                           !.outcome = "stop"]
        ELSE [m EXCEPT !.outcome = "idle"]
    ELSE IF ~in.charging THEN
        IF ~in.api_ok THEN [m EXCEPT !.outcome = "fault", !.fault = "HTTPError"]
        ELSE [m EXCEPT !.writes = @ \o <<SetChargingAmps(target), SetCharging(TRUE)>>,
                       !.remembered_charging_enabled = TRUE,
                       !.remembered_charging_amps = target,
                       !.notifications = @ \o <<Notify("Zacetek polnjenja")>>,
                       !.outcome = "start"]
    ELSE IF target # in.charging_amps THEN
        IF ~in.api_ok THEN [m EXCEPT !.outcome = "fault", !.fault = "HTTPError"]
        ELSE [m EXCEPT !.writes = @ \o <<SetChargingAmps(target)>>,
                       !.remembered_charging_amps = target,
                       !.outcome = "adjust"]
    ELSE [m EXCEPT !.outcome = "keep"]

\* main, lines 572-608: stop, start or adjust charging for the target amps;
\* m is the cycle so far; a write with the API down raises httpx.HTTPError
reconcile(c, in, target, m) ==
    IF target = 0 THEN
        IF in.charging THEN
            IF ~in.api_ok THEN [m EXCEPT !.outcome = "fault", !.fault = "HTTPError"]
            ELSE [m EXCEPT !.writes = @ \o <<SetCharging(FALSE)>>,
                           !.remembered_charging_enabled = FALSE,
                           !.notifications = @ \o <<Notify("Polnjenje koncano")>>,
                           !.outcome = "stop"]
        ELSE [m EXCEPT !.outcome = "idle"]
    ELSE IF ~in.charging THEN
        IF in.snap.car_soc # NaN /\ in.snap.car_soc > in.snap.top_up_limit
        THEN [m EXCEPT !.outcome = "full_enough"]
        ELSE IF ~in.api_ok THEN [m EXCEPT !.outcome = "fault", !.fault = "HTTPError"]
        ELSE [m EXCEPT !.writes = @ \o <<SetChargingAmps(target), SetCharging(TRUE)>>,
                       !.remembered_charging_enabled = TRUE,
                       !.remembered_charging_amps = target,
                       !.notifications = @ \o <<Notify("Zacetek polnjenja")>>,
                       !.outcome = "start"]
    ELSE IF target # in.charging_amps THEN
        IF ~in.api_ok THEN [m EXCEPT !.outcome = "fault", !.fault = "HTTPError"]
        ELSE [m EXCEPT !.writes = @ \o <<SetChargingAmps(target)>>,
                       !.remembered_charging_amps = target,
                       !.outcome = "adjust"]
    ELSE [m EXCEPT !.outcome = "keep"]

\* main, lines 545-570 and on: the classifier step (when was_manual is false)
\* and what follows from its result
classify_and_reconcile(c, in, target, t, m) ==
    IF m.was_manual THEN reconcile(c, in, target, [m EXCEPT !.was_manual = FALSE])
    ELSE
    LET r == call_handle_unexpected(c, in.charging, in.charging_amps,
                 m.remembered_charging_enabled, m.remembered_charging_amps, in.reread, t)
        seen == [m EXCEPT !.classifier = r.result,
                          !.remembered_charging_enabled = in.charging,
                          !.remembered_charging_amps = in.charging_amps,
                          !.elapsed = IF r.slept THEN c.poll_interval ELSE 0]
    IN  IF r.fault # "none"
        THEN [m EXCEPT !.classifier = r.fault, !.outcome = "fault", !.fault = r.fault]
        ELSE IF r.result = "Disconnected" THEN [seen EXCEPT !.outcome = "unplugged"]
        ELSE IF r.result = "Manual" THEN
            IF ~in.api_ok THEN [seen EXCEPT !.outcome = "fault", !.fault = "HTTPError"]
            ELSE [seen EXCEPT !.writes = @ \o <<SetChargingPlan("Manual")>>,
                              !.notifications = @ \o <<Notify("Nastavljeno na rocno polnjenje")>>,
                              !.was_manual = TRUE,
                              !.outcome = "to_manual"]
        ELSE IF r.result = "Scheduled" THEN
            IF ~in.api_ok THEN [seen EXCEPT !.outcome = "fault", !.fault = "HTTPError"]
            ELSE reconcile(c, in, target,
                    [seen EXCEPT !.notifications = @ \o <<Notify("Zacetek polnjenja")>>])
        ELSE reconcile(c, in, target, seen)

\* main, lines 489-608: the rest of an iteration, at clock t and from the
\* controller memory mem, once the seven calls of calculate_charging_amps
\* (all_charging_amps) have left P
after_plans(c, mem, t, in, P) ==
    LET target == P.amps[in.charging_plan]
        m == [was_manual |-> mem.was_manual,
              remembered_charging_enabled |-> mem.remembered_charging_enabled,
              remembered_charging_amps |-> mem.remembered_charging_amps,
              ns |-> P.ns, writes |-> P.writes, notifications |-> <<>>,
              amps |-> P.amps, nightly_path |-> P.paths["Nightly"], target |-> target,
              classifier |-> "skipped", outcome |-> "none", fault |-> "none",
              saved |-> TRUE, elapsed |-> 0]
    IN  IF P.fault # "none"
        THEN [m EXCEPT !.outcome = "fault", !.fault = P.fault, !.saved = FALSE]
        ELSE IF ~in.charger_connected THEN [m EXCEPT !.outcome = "disconnected"]
        ELSE IF in.charging_plan = "Manual"
        THEN [m EXCEPT !.outcome = "manual", !.was_manual = TRUE]
        ELSE classify_and_reconcile(c, in, target, t, m)

\* the clock at the start of a run of the controller
LoopStartTimes == {Epoch0 + h * 3600 : h \in LoopStartHour .. (LoopStartHour + StartSpan)}

memory_vars == <<was_manual, remembered_charging_enabled, remembered_charging_amps>>

\* __main__, lines 611-630: the process is about to call main(c, api)
Init ==
    /\ config \in Configs
    /\ pc = "start"
    /\ stop_cause = "none"
    /\ was_manual = FALSE
    /\ remembered_charging_enabled = FALSE
    /\ remembered_charging_amps = 0
    /\ nightly_state = reset
    /\ now \in LoopStartTimes
    /\ cycle = NoCycle
    /\ writes = <<>>
    /\ notifications = <<>>
    /\ call = NoCall
    /\ cls = NoCls

\* main, lines 426-432: the three reads before the loop; they are outside any
\* try, so a failed read leaves main as an exception
StartMain ==
    /\ pc = "start"
    /\ \E read \in PlanReads, charging \in BOOLEAN, amps \in LoopAmpsReadings,
          api_ok \in BOOLEAN :
          LET p == get_charging_plan(read)
          IN  IF ~api_ok \/ p.fault # "none"
              THEN /\ pc' = "crashed"
                   /\ UNCHANGED memory_vars
              ELSE /\ pc' = "polling"
                   /\ was_manual' = (p.plan = "Manual")
                   /\ remembered_charging_enabled' = charging
                   /\ remembered_charging_amps' = amps
    /\ writes' = <<>>
    /\ notifications' = <<>>
    /\ UNCHANGED <<config, stop_cause, nightly_state, now, cycle, call, cls>>

\* main, lines 434-608: one iteration of the loop whose reads succeed.  The
\* re-read of the connection belongs to the classifier's body, which the call
\* at line 547 does not reach.
Cycle ==
    /\ pc = "polling"
    /\ now <= LoopEnd
    /\ \E snap \in Snapshots, api_ok \in BOOLEAN :
       \E P \in {all_charging_amps(config, snap, nightly_state, now, api_ok)} :
       \E plan \in ChargingPlan, connected \in BOOLEAN, charging \in BOOLEAN,
          amps \in LoopAmpsReadings :
          LET in == [charging_plan |-> plan, charger_connected |-> connected,
                     charging |-> charging, charging_amps |-> amps, snap |-> snap,
                     api_ok |-> api_ok, reread |-> "on"]
              mem == [was_manual |-> was_manual,
                      remembered_charging_enabled |-> remembered_charging_enabled,
                      remembered_charging_amps |-> remembered_charging_amps]
          IN  \E r \in {after_plans(config, mem, now, in, P)} :
              /\ was_manual' = r.was_manual
              /\ remembered_charging_enabled' = r.remembered_charging_enabled
              /\ remembered_charging_amps' = r.remembered_charging_amps
              /\ nightly_state' = r.ns
              /\ writes' = r.writes
              /\ notifications' = r.notifications
              /\ cycle' = [time |-> now, charging_plan |-> plan,
                           charger_connected |-> connected, charging |-> charging,
                           charging_amps |-> amps, snap |-> snap,
                           was_manual_before |-> was_manual,
                           amps |-> r.amps, nightly_path |-> r.nightly_path,
                           target |-> r.target, classifier |-> r.classifier,
                           outcome |-> r.outcome, fault |-> r.fault, saved |-> r.saved,
                           writes |-> r.writes]
              /\ pc' = IF r.fault # "none" THEN "crashed" ELSE "polling"
              /\ now' = IF r.fault # "none" THEN now + r.elapsed
                        ELSE now + r.elapsed + config.poll_interval
    /\ UNCHANGED <<config, stop_cause, call, cls>>

\* a failed read that also forgets the controller memory
ReadFailure_forgets ==
    /\ pc = "polling"
    /\ now <= LoopEnd
    /\ \E err \in {"ValueError", "HTTPError"} :
          cycle' = [time |-> now, outcome |-> "read_error", fault |-> err,
                    saved |-> FALSE, writes |-> <<>>]
    /\ now' = now + config.poll_interval
    /\ writes' = <<>>
    /\ notifications' = <<>>
    /\ UNCHANGED <<config, pc, stop_cause, nightly_state, call, cls>>
    /\ was_manual' = FALSE
    /\ remembered_charging_enabled' = FALSE
    /\ remembered_charging_amps' = 0

\* main, lines 436-457: a read of the cycle fails (a transport error, or a
\* value that does not convert): log, sleep one poll interval, continue
ReadFailure ==
    /\ pc = "polling"
    /\ now <= LoopEnd
    /\ \E err \in {"ValueError", "HTTPError"} :
          cycle' = [time |-> now, outcome |-> "read_error", fault |-> err,
                    saved |-> FALSE, writes |-> <<>>]
    /\ now' = now + config.poll_interval
    /\ writes' = <<>>
    /\ notifications' = <<>>
    /\ UNCHANGED <<config, pc, stop_cause, nightly_state, call, cls>>
    /\ UNCHANGED memory_vars

\* __main__, lines 636-647: an exception left main: sleep 60 s, send the crash
\* notification (which may fail), continue; the finally clause then closes the
\* connections and its break ends the outer loop
HandleCrash ==
    /\ pc = "crashed"
    /\ \E api_ok \in BOOLEAN :
          notifications' = IF api_ok THEN <<Notify("Krmilnik se je sesul")>> ELSE <<>>
    /\ now' = now + 60
    /\ writes' = <<>>
    /\ pc' = "stopped"
    /\ stop_cause' = "Exception"
    /\ UNCHANGED <<config, nightly_state, cycle, call, cls>>
    /\ UNCHANGED memory_vars

\* __main__, lines 633-635 and 643-647: a keyboard interrupt ends the process
KeyboardInterrupt ==
    /\ pc \in {"start", "polling", "crashed"}
    /\ pc' = "stopped"
    /\ stop_cause' = "KeyboardInterrupt"
    /\ writes' = <<>>
    /\ notifications' = <<>>
    /\ UNCHANGED <<config, nightly_state, now, cycle, call, cls>>
    /\ UNCHANGED memory_vars

Next == StartMain \/ Cycle \/ ReadFailure \/ HandleCrash \/ KeyboardInterrupt

Spec == Init /\ [][Next]_vars

-----------------------------------------------------------------------------
(* SpecFunctions: the pure functions, each called on its own over a range of
   configurations and inputs *)

\* night 23:30-00:30, schedule from 18:00 (its window ends at 24:00), a reserve
\* ceiling below min_power * charge_efficiency_factor, thresholds 0 / 50 / 50
ConfigLate ==
    [Config1 EXCEPT !.nightly_start = 84600, !.nightly_end = 1800,
                    !.tesla_schedule_start = 64800,
                    !.battery_power_reserve = 1000,
                    !.battery_soc_no_charging = 0, !.battery_soc_reserve = 50,
                    !.battery_soc_peak_shaving_minimal = 50]

\* night 20:00-00:00, schedule from 23:59
ConfigMidnight ==
    [Config1 EXCEPT !.nightly_start = 72000, !.nightly_end = 0,
                    !.tesla_schedule_start = 86340]

\* night 00:00-06:00 (a window that does not cross midnight), schedule from
\* 01:00, a minimal peak-shaving ceiling below min_power * charge_efficiency_factor
ConfigMorning ==
    [Config1 EXCEPT !.nightly_start = 0, !.nightly_end = 21600,
                    !.tesla_schedule_start = 3600,
                    !.battery_power_peak_shaving_minimal = 1000]

\* night 01:00-05:00 (not crossing midnight), a full peak-shaving ceiling
\* below min_power * charge_efficiency_factor
ConfigSameDay ==
    [Config1 EXCEPT !.nightly_start = 3600, !.nightly_end = 18000,
                    !.battery_power_peak_shaving = 1000]

FunctionConfigs == {Config1, ConfigLate, ConfigMidnight, ConfigMorning, ConfigSameDay}

\* times of day are tried on every full hour, at the last second of the day
\* and up to EdgeSpan seconds around the ends of the configured windows
EdgeSpan == 2

WindowEnds(c) ==
    {c.nightly_start, c.nightly_end, c.tesla_schedule_start,
     (c.tesla_schedule_start + 6 * 3600) % Day}

\* time_local.tm_hour * 3600 + time_local.tm_min * 60 + time_local.tm_sec
TimesOfDay(c) ==
    {h * 3600 : h \in 0..23} \cup {Day - 1}
        \cup {t \in {x + d : x \in WindowEnds(c), d \in (0 - EdgeSpan)..EdgeSpan} :
                t >= 0 /\ t < Day}

\* telemetry in watts: PV power, total load, battery load (of either sign)
PvWatts == {0, 3000, 6000}
LoadWatts == {500, 4000}
BatteryLoadWatts == {-2000, 0, 2000}

\* inverter SOC in percent
SocValues == 0..99

NoEval == [fn |-> "none"]

InitFunctions ==
    /\ config \in FunctionConfigs
    /\ LoopIdle
    /\ nightly_state = reset
    /\ now = Epoch0
    /\ call = NoEval
    /\ cls = NoCls

\* get_nightly_time(c) when the wall clock reads time_now
NightlyTimeCall ==
    /\ \E time_now \in TimesOfDay(config) :
          call' = [fn |-> "get_nightly_time", time_now |-> time_now,
                   result |-> get_nightly_time(config, time_now)]
    /\ UNCHANGED <<config, nightly_state, now, cls>>
    /\ UNCHANGED loop_vars

\* is_scheduled_charging_time(c) when the wall clock reads time_now
ScheduledTimeCall ==
    /\ \E time_now \in TimesOfDay(config) :
          call' = [fn |-> "is_scheduled_charging_time", time_now |-> time_now,
                   result |-> is_scheduled_charging_time(config, time_now)]
    /\ UNCHANGED <<config, nightly_state, now, cls>>
    /\ UNCHANGED loop_vars

\* ps.get_max_power(c, pv_power, total_load, battery_load, battery_strategy)
MaxPowerCall ==
    /\ \E ps \in ChargingPowerSource, battery_strategy \in BatteryLoadStrategy,
          pv_power \in PvWatts, total_load \in LoadWatts, battery_load \in BatteryLoadWatts :
          call' = [fn |-> "get_max_power", ps |-> ps, battery_strategy |-> battery_strategy,
                   pv_power |-> pv_power, total_load |-> total_load,
                   battery_load |-> battery_load,
                   result |-> get_max_power(ps, config, pv_power, total_load,
                                            battery_load, battery_strategy)]
    /\ UNCHANGED <<config, nightly_state, now, cls>>
    /\ UNCHANGED loop_vars

\* BatteryLoadStrategy.from_soc(soc, c)
FromSocCall ==
    /\ \E soc \in SocValues :
          call' = [fn |-> "from_soc", soc |-> soc, result |-> from_soc(soc, config)]
    /\ UNCHANGED <<config, nightly_state, now, cls>>
    /\ UNCHANGED loop_vars

\* api.get_charging_plan() when the template yields read
PlanReadCall ==
    /\ \E read \in PlanReads :
          call' = [fn |-> "get_charging_plan", read |-> read,
                   result |-> get_charging_plan(read)]
    /\ UNCHANGED <<config, nightly_state, now, cls>>
    /\ UNCHANGED loop_vars

\* seconds that can pass between two reads of the clock in one statement
ClockSteps == {0, 1}

\* main, line 483 for plan SolarPlusNightly: plan.get_power_source() reads the
\* clock at t_source to choose the budget, then calculate_charging_amps reads
\* it again at t_sizing to choose the sizing rule
solar_plus_nightly_amps(c, snap, t_source, t_sizing) ==
    LET src == get_power_source("SolarPlusNightly", c, TimeOfDay(t_source))
    IN  IF src.fault # "none"
        THEN [ps |-> src.ps, amps |-> 0, path |-> "fault", fault |-> src.fault]
        ELSE LET r == calculate_charging_amps(c, "SolarPlusNightly",
                          power_sources(c, snap)[src.ps], snap.car_soc,
                          snap.charging_limit, reset, t_sizing, TRUE)
             IN  [ps |-> src.ps, amps |-> r.amps, path |-> r.path, fault |-> r.fault]

\* the SolarPlusNightly entry of all_charging_amps, with its two clock reads
SolarPlusNightlyCall ==
    /\ \E time_now \in TimesOfDay(config), step \in ClockSteps, snap \in Snapshots :
          \E r \in {solar_plus_nightly_amps(config, snap, Epoch0 + time_now,
                                            Epoch0 + time_now + step)} :
          call' = [fn |-> "solar_plus_nightly", time_source |-> time_now,
                   time_sizing |-> TimeOfDay(Epoch0 + time_now + step),
                   snap |-> snap, ps |-> r.ps, amps |-> r.amps, path |-> r.path,
                   fault |-> r.fault]
    /\ UNCHANGED <<config, nightly_state, now, cls>>
    /\ UNCHANGED loop_vars

NextFunctions ==
    \/ NightlyTimeCall \/ ScheduledTimeCall \/ MaxPowerCall \/ FromSocCall \/ PlanReadCall
    \/ SolarPlusNightlyCall

SpecFunctions == InitFunctions /\ [][NextFunctions]_vars

-----------------------------------------------------------------------------
(* Claims about the mode transition classifier (SpecClassifier) *)

\* the last classifier call returned normally
ClsReturned == cls # NoCls /\ cls.fault = "none"

\* charging stopped with unchanged amps and the charger is still connected
\* after the wait
StoppedStillConnected ==
    /\ ClsReturned
    /\ cls.remembered_enabled /\ ~cls.charging
    /\ cls.remembered_amps = cls.charging_amps
    /\ cls.reread = "on"

\* C8 as stated: remembered (charging, A), observed (not charging, A), charger
\* still connected after the one-poll-interval wait: the result is Disconnected.
C8_StillConnectedIsDisconnected == StoppedStillConnected => cls.result = "Disconnected"

\* C8 amended: remembered (charging, A), observed (not charging, A), charger
\* still connected after the one-poll-interval wait: the classifier has waited
\* one poll interval and the result is Manual.
C8_StillConnectedIsManual ==
    StoppedStillConnected => (cls.result = "Manual" /\ cls.slept)

C8_Witness == StoppedStillConnected /\ cls.remembered_amps = 16

\* C9: for every pair of amps values, a start (false -> true) inside the
\* scheduled window is Scheduled, a start outside it is Manual, and charging
\* in both states with different amps is Manual whatever the window.
C9_StartsAndAmpsChanges ==
    ClsReturned =>
        /\ (~cls.remembered_enabled /\ cls.charging
                /\ is_scheduled_charging_time(config, TimeOfDay(cls.time)))
            => cls.result = "Scheduled"
        /\ (~cls.remembered_enabled /\ cls.charging
                /\ ~is_scheduled_charging_time(config, TimeOfDay(cls.time)))
            => cls.result = "Manual"
        /\ (cls.remembered_enabled /\ cls.charging
                /\ cls.remembered_amps # cls.charging_amps)
            => cls.result = "Manual"

C9_Witness ==
    /\ ClsReturned
    /\ cls.remembered_enabled /\ cls.charging
    /\ cls.remembered_amps = 16 /\ cls.charging_amps = 10
    /\ is_scheduled_charging_time(config, TimeOfDay(cls.time))
    /\ cls.result = "Manual"

\* C10: the result is Ignored exactly when remembered charging = observed
\* charging = false and the amps differ; a stop (true -> false) with the
\* charger still connected is never Ignored.
C10_IgnoredOnlyAmpsChanged ==
    ClsReturned =>
        (cls.result = "Ignored"
            <=> (~cls.remembered_enabled /\ ~cls.charging
                    /\ cls.remembered_amps # cls.charging_amps))

-----------------------------------------------------------------------------
(* Claims about the amps planner (SpecPlanner) *)

\* the last planner call returned normally
CallReturned == call # NoCall /\ call.fault = "none"

\* C1 as stated: the amps returned by calculate_charging_amps is 0 or an
\* integer in [min_amps, max_amps], for every plan, budget, SOC, limit, clock
\* time and cache state, the three nightly outcomes included.
C1_AmpsZeroOrInHardwareRange ==
    CallReturned =>
        \/ call.amps = 0
        \/ (call.amps \in Int /\ config.min_amps <= call.amps
                /\ call.amps <= config.max_amps)

\* a call with plan Nightly inside the night window, with at least
\* 1.2 x poll_interval remaining and passing guards
NightlySized(k) ==
    /\ k # NoCall
    /\ k.plan = "Nightly"
    /\ guards_pass(config, k.max_power, k.current_soc, k.limit_soc)
    /\ LET n == get_nightly_time(config, TimeOfDay(k.time))
       IN  n.is_night /\ 10 * n.remaining_time_s >= 12 * config.poll_interval

\* the least whole number of amps that delivers the remaining energy of call
\* k in the remaining night time
LeastAmps(k) ==
    LET n   == get_nightly_time(config, TimeOfDay(k.time))
        num == config.vehicle_battery_capacity * (k.limit_soc - k.current_soc) * 36
        den == n.remaining_time_s * config.volts * config.phases
    IN  CHOOSE a \in 0..64 : a * den >= num /\ (a = 0 \/ (a - 1) * den < num)

\* what a fresh nightly computation of call k yields
FreshAmps(k) ==
    Min(Max(LeastAmps(k), config.min_amps), max_amps_from_budget(config, k.max_power))

\* this step is a nightly-sized call that follows a nightly-sized call with
\* the same budget
ConsecutiveNightly ==
    /\ call' # call
    /\ NightlySized(call) /\ NightlySized(call')
    /\ call'.max_power = call.max_power

\* the second call recomputed from its own SOC and remaining time and
\* overwrote the cache
Recomputed ==
    /\ call'.amps = FreshAmps(call')
    /\ nightly_state' = [last_calc_time |-> call'.time, cached_amps |-> <<call'.amps>>]

\* C7 as stated: of two consecutive nightly-sized calls with the same budget,
\* the second returns the amps of the first if it comes at most
\* nightly_recalc_interval seconds after the first, and recomputes and
\* overwrites the cache if it comes later than that.
C7_SameWithinIntervalOfFirstCall ==
    [][ConsecutiveNightly =>
            IF call'.time - call.time <= config.nightly_recalc_interval
            THEN call'.amps = call.amps
            ELSE Recomputed]_vars

\* C7 amended: of two consecutive nightly-sized calls with the same budget,
\* the second returns the amps of the first and leaves the cache alone if it
\* comes at most nightly_recalc_interval seconds after the cached amps were
\* computed (last_calc_time: the time of the first call only if the first
\* call itself recomputed), even when SOC or remaining time changed; if it
\* comes later than that, as it does whenever it is more than
\* nightly_recalc_interval after the first call, it recomputes from the
\* current SOC and remaining time and overwrites the cache.
C7_SameWithinIntervalOfComputation ==
    [][ConsecutiveNightly =>
            /\ nightly_state.cached_amps # <<>>
            /\ nightly_state.last_calc_time <= call.time
            /\ IF call'.time - nightly_state.last_calc_time <= config.nightly_recalc_interval
               THEN call'.amps = call.amps /\ nightly_state' = nightly_state
               ELSE Recomputed]_vars

\* a nightly-sized call after the cache was filled returned the cached amps
\* although a recomputation from its SOC and remaining time gives another value
C7_Witness ==
    /\ CallReturned /\ NightlySized(call)
    /\ nightly_state.cached_amps = <<call.amps>>
    /\ call.time > nightly_state.last_calc_time
    /\ call.amps # FreshAmps(call)

-----------------------------------------------------------------------------
(* Claims about the control loop (Spec) *)

\* the last iteration of main's loop got past its reads
CycleRan == cycle.outcome \notin {"none", "read_error"}

\* C2: in a cycle whose active plan, as read in that cycle, is Manual, the
\* engine issues no actuation write (no set_charging, set_charging_amps or
\* set_charging_plan).
C2_ManualCycleWritesNothing ==
    (CycleRan /\ cycle.charging_plan = "Manual") => cycle.writes = <<>>

\* C3: set_charging_plan(MaxSpeed) is written only in a cycle whose charger is
\* connected, whose active plan is Nightly (or SolarPlusNightly during the
\* night window) and whose remaining night time is below 1.2 x poll_interval.
C3_EscalationOnlyUnderNightlyPlan ==
    (CycleRan /\ \E i \in 1..Len(cycle.writes) : cycle.writes[i] = SetChargingPlan("MaxSpeed"))
        => LET n == get_nightly_time(config, TimeOfDay(cycle.time))
           IN  /\ cycle.charger_connected
               /\ cycle.charging_plan \in {"Nightly", "SolarPlusNightly"}
               /\ n.is_night
               /\ 10 * n.remaining_time_s < 12 * config.poll_interval

\* C4: after a fault that escapes main the control loop is started again; only
\* a keyboard interrupt ever ends the process.
C4_OnlyInterruptStops == pc = "stopped" => stop_cause = "KeyboardInterrupt"

\* C5: in a cycle that reaches step 3 with the charger connected, a plan other
\* than Manual and was_manual false, the call of the classifier returns one of
\* the five results, and after Expected, Scheduled or Ignored the same cycle
\* goes on to reconciliation.
C5_ClassifierCallCompletes ==
    (CycleRan /\ cycle.saved /\ cycle.charger_connected
        /\ cycle.charging_plan # "Manual" /\ ~cycle.was_manual_before)
        => /\ cycle.classifier \in UnexpectedChangeResult
           /\ (cycle.classifier \in {"Expected", "Scheduled", "Ignored"}
                 => cycle.outcome \in {"stop", "idle", "full_enough", "start",
                                       "adjust", "keep", "fault"})

\* C6: the nightly amps computed and cached in a cycle with active plan
\* Nightly (night window, passing guards, at least 1.2 x poll_interval left)
\* is still cached when the next cycle starts.
C6_NightlyCacheSurvivesCycle ==
    (CycleRan /\ cycle.fault = "none" /\ cycle.charging_plan = "Nightly"
        /\ cycle.nightly_path \in {"computed", "cached", "cached_clamped"})
        => nightly_state.cached_amps = <<cycle.amps["Nightly"]>>

-----------------------------------------------------------------------------
(* Claims about the time windows (SpecFunctions) *)

NightlyTimeCalled == call.fn = "get_nightly_time"

\* the configured night window crosses midnight
WrapsMidnight(c) == c.nightly_end < c.nightly_start

\* C11: with a night window that crosses midnight, get_nightly_time reports
\* (False, 0) exactly for nightly_end < t < nightly_start, and otherwise night
\* with remaining seconds (nightly_end - t) mod 86400, which is at least 0 and
\* at most the length of the window.
C11_WrapWindowRemaining ==
    (NightlyTimeCalled /\ WrapsMidnight(config))
        => LET t == call.time_now
               r == call.result
               outside == config.nightly_end < t /\ t < config.nightly_start
           IN  /\ r.fault = "none"
               /\ r.is_night = ~outside
               /\ outside => r.remaining_time_s = 0
               /\ ~outside => /\ r.remaining_time_s = (config.nightly_end - t) % Day
                              /\ r.remaining_time_s >= 0
                              /\ r.remaining_time_s
                                    <= config.nightly_end + Day - config.nightly_start

\* a call before midnight and one after it, both inside the wrapping window
C11_Witness ==
    /\ NightlyTimeCalled /\ WrapsMidnight(config)
    /\ call.result.is_night
    /\ call.time_now < config.nightly_end
    /\ call.result.remaining_time_s = config.nightly_end - call.time_now

\* C12: for every night window, also one with nightly_start <= nightly_end,
\* and every time of day, get_nightly_time returns without fault, with a
\* remaining time that is not negative.
C12_EveryWindowReturns ==
    NightlyTimeCalled
        => /\ call.result.fault = "none"
           /\ call.result.remaining_time_s >= 0

ScheduledTimeCalled == call.fn = "is_scheduled_charging_time"

\* C13: is_scheduled_charging_time is true exactly when
\* (t - tesla_schedule_start) mod 86400 <= 21600.
C13_ScheduledIffWithinSixHours ==
    ScheduledTimeCalled
        => (call.result <=> (call.time_now - config.tesla_schedule_start) % Day <= 6 * 3600)

-----------------------------------------------------------------------------
(* Claims about the battery strategy and the power sources *)

MaxPowerCalled == call.fn = "get_max_power"

\* C14: for every power source, battery strategy and snapshot (PV, total load
\* and battery load of either sign), with non-negative min_power, efficiency
\* and ceilings, get_max_power returns a budget >= 0.
C14_BudgetNeverNegative == MaxPowerCalled => call.result >= 0

\* the Full source with a negative balance of PV, load and ceiling
C14_Witness ==
    /\ MaxPowerCalled
    /\ call.ps = "Full"
    /\ max_charing_power_with_grid(call.battery_strategy, config) * Scale >= MinPowerScaled(config)
    /\ call.pv_power - call.total_load
          + max_charing_power_with_grid(call.battery_strategy, config) < 0
    /\ call.result = 0

\* the strategy of the cycle's inverter SOC cannot feed min_power
NotEnoughPower(c, snap) ==
    max_charing_power_with_grid(from_soc(snap.inverter_soc, c), c) * Scale < MinPowerScaled(c)

\* C15 (Spec): in a cycle whose battery strategy has a ceiling below
\* min_power x charge_efficiency_factor, all five power-source budgets are 0,
\* whatever the PV surplus, and the target amps of every plan is 0.
C15_NotEnoughPowerAllZero ==
    (CycleRan /\ NotEnoughPower(config, cycle.snap))
        => /\ \A ps \in ChargingPowerSource : power_sources(config, cycle.snap)[ps] = 0
           /\ \A plan \in ChargingPlan : cycle.amps[plan] = 0

\* a cycle under strategy NoCharging with a PV surplus
C15_Witness ==
    /\ CycleRan
    /\ from_soc(cycle.snap.inverter_soc, config) = "NoCharging"
    /\ cycle.snap.pv_power > cycle.snap.total_load
    /\ cycle.snap.car_soc # NaN /\ cycle.snap.car_soc < cycle.snap.charging_limit

MinBatteryLoadUnderPeakShaving ==
    /\ MaxPowerCalled
    /\ call.ps = "MinBatteryLoad"
    /\ call.battery_strategy = "PeakShaving"

\* the MinBatteryLoad budget of the same snapshot under PeakShavingMininal
UnderMinimal ==
    get_max_power("MinBatteryLoad", config, call.pv_power, call.total_load,
                  call.battery_load, "PeakShavingMininal")

\* C16 as stated: for every snapshot and every configuration of ceilings, the
\* MinBatteryLoad budget under PeakShaving equals the one under
\* PeakShavingMininal.
C16_SameUnderBothStrategies == MinBatteryLoadUnderPeakShaving => call.result = UnderMinimal

\* both peak-shaving ceilings are on the same side of min_power x efficiency
SameSideOfMinPower(c) ==
    (c.battery_power_peak_shaving * Scale < MinPowerScaled(c))
        <=> (c.battery_power_peak_shaving_minimal * Scale < MinPowerScaled(c))

\* C16, amended: the two budgets are equal when the two ceilings are on the
\* same side of min_power x charge_efficiency_factor; the full ceiling enters
\* the MinBatteryLoad budget through the not-enough-power test only.
C16_SameWhenCeilingsOnSameSide ==
    (MinBatteryLoadUnderPeakShaving /\ SameSideOfMinPower(config))
        => call.result = UnderMinimal

\* a positive MinBatteryLoad budget under PeakShaving that the full ceiling
\* would have made larger
C16_Witness ==
    /\ MinBatteryLoadUnderPeakShaving /\ SameSideOfMinPower(config)
    /\ call.result > 0
    /\ call.result < (call.pv_power - call.total_load - call.battery_load
                        + config.battery_power_peak_shaving) * Scale

FromSocCalled == call.fn = "from_soc"

\* the order NoCharging < Reserve < PeakShavingMinimal < PeakShaving
StrategyRank ==
    [strategy \in BatteryLoadStrategy |->
        IF strategy = "NoCharging" THEN 0
        ELSE IF strategy = "Reserve" THEN 1
        ELSE IF strategy = "PeakShavingMininal" THEN 2 ELSE 3]

AscendingThresholds(c) ==
    /\ c.battery_soc_no_charging <= c.battery_soc_reserve
    /\ c.battery_soc_reserve <= c.battery_soc_peak_shaving_minimal

\* C17: with ascending thresholds, for every SOC in [0, 100) from_soc returns
\* one of the four strategies, the first whose threshold is above the SOC
\* (PeakShaving if none is), and no higher SOC gets a lower strategy.
C17_FromSocFirstMatchMonotone ==
    (FromSocCalled /\ AscendingThresholds(config))
        => LET soc == call.soc
               r   == call.result
           IN  /\ r \in BatteryLoadStrategy
               /\ r = "NoCharging" <=> soc < config.battery_soc_no_charging
               /\ r = "Reserve" <=> /\ config.battery_soc_no_charging <= soc
                                    /\ soc < config.battery_soc_reserve
               /\ r = "PeakShavingMininal"
                     <=> /\ config.battery_soc_reserve <= soc
                         /\ soc < config.battery_soc_peak_shaving_minimal
               /\ r = "PeakShaving" <=> soc >= config.battery_soc_peak_shaving_minimal
               /\ \A higher \in SocValues :
                     higher >= soc => StrategyRank[from_soc(higher, config)] >= StrategyRank[r]

\* a SOC between the first two thresholds
C17_Witness ==
    /\ FromSocCalled /\ AscendingThresholds(config)
    /\ call.result = "Reserve"
    /\ call.soc > 0

\* the five plans that take all their power source gives
MaxAvailablePlans == {"Manual", "SolarOnly", "MinPlusSolar", "MinBatteryLoad", "MaxSpeed"}

\* C18 (SpecPlanner): for the plans Manual, SolarOnly, MinPlusSolar,
\* MinBatteryLoad and MaxSpeed, with the car SOC available and below the
\* limit and a budget that passes the guards, the amps returned is
\* min(m, max_amps) for the integer m with m x step <= budget < (m+1) x step,
\* step = phases x volts x efficiency.
C18_MaxAvailableIsFloorOfBudget ==
    (CallReturned /\ call.plan \in MaxAvailablePlans
        /\ guards_pass(config, call.max_power, call.current_soc, call.limit_soc))
        => LET step == config.phases * config.volts * config.charge_efficiency_pct
           IN  \E m \in 0..64 :
                  /\ m * step <= call.max_power
                  /\ call.max_power < (m + 1) * step
                  /\ call.amps = Min(m, config.max_amps)

\* a call of one of the five plans returning less than max_amps
C18_Witness ==
    /\ CallReturned /\ call.plan \in MaxAvailablePlans
    /\ guards_pass(config, call.max_power, call.current_soc, call.limit_soc)
    /\ call.amps > 0 /\ call.amps < config.max_amps

\* C19 (SpecFunctions): when the charging-plan read yields a string that is
\* none of the seven plan values, get_charging_plan returns
\* ChargingPlan.Manual and no exception reaches the caller.
C19_UnknownPlanReadIsManual ==
    (call.fn = "get_charging_plan" /\ call.read \notin ChargingPlan)
        => /\ call.result.fault = "none"
           /\ call.result.plan = "Manual"

\* C20 (Spec): an iteration whose telemetry reads fail issues no actuation
\* write, saves no metrics record, leaves was_manual,
\* remembered_charging_enabled, remembered_charging_amps and the nightly state
\* as they were, and the next iteration starts one poll interval later.
C20_ReadFailureSkipsCycle ==
    [][(cycle' # cycle /\ cycle'.outcome = "read_error")
        => /\ writes' = <<>>
           /\ cycle'.writes = <<>>
           /\ ~cycle'.saved
           /\ was_manual' = was_manual
           /\ remembered_charging_enabled' = remembered_charging_enabled
           /\ remembered_charging_amps' = remembered_charging_amps
           /\ nightly_state' = nightly_state
           /\ pc' = "polling"
           /\ now' = now + config.poll_interval]_vars

\* a failed read in a controller that remembers manual mode and a charging car
C20_Witness ==
    /\ cycle.outcome = "read_error"
    /\ pc = "polling"
    /\ was_manual
    /\ remembered_charging_enabled
    /\ remembered_charging_amps > 0

-----------------------------------------------------------------------------
(* Claims about step 4 of the cycle and the controller memory (Spec) *)

\* the cycle got through steps 1 to 3 to the reconciliation of step 4, and no
\* request failed
ReachedStep4 ==
    /\ CycleRan
    /\ cycle.fault = "none"
    /\ cycle.charger_connected
    /\ cycle.charging_plan # "Manual"
    /\ (cycle.was_manual_before \/ cycle.classifier \in {"Expected", "Scheduled", "Ignored"})

\* the writes of the cycle hold first immediately followed by second
IssuedInOrder(first, second) ==
    \E i \in 1..(Len(cycle.writes) - 1) :
        cycle.writes[i] = first /\ cycle.writes[i + 1] = second

\* C21: no cycle with the car SOC above the top-up limit issues
\* set_charging(True); a cycle that reaches step 4 with target amps > 0, the
\* car not charging and SOC <= top-up limit issues set_charging_amps(target)
\* followed by set_charging(True) and remembers (charging=true, amps=target).
C21_StartRespectsTopUpLimit ==
    CycleRan =>
        /\ (cycle.snap.car_soc # NaN /\ cycle.snap.car_soc > cycle.snap.top_up_limit)
              => \A i \in 1..Len(cycle.writes) : cycle.writes[i] # SetCharging(TRUE)
        /\ (ReachedStep4 /\ cycle.target > 0 /\ ~cycle.charging
                /\ cycle.snap.car_soc <= cycle.snap.top_up_limit)
              => /\ IssuedInOrder(SetChargingAmps(cycle.target), SetCharging(TRUE))
                 /\ remembered_charging_enabled
                 /\ remembered_charging_amps = cycle.target

\* a start of charging, and a start suppressed by the top-up limit
C21_Witness ==
    /\ ReachedStep4 /\ cycle.target > 0 /\ ~cycle.charging
    /\ cycle.snap.car_soc <= cycle.snap.top_up_limit
    /\ cycle.outcome = "start"

-----------------------------------------------------------------------------
(* Claims about the nightly branch and the nightly state (SpecPlanner) *)

\* what get_nightly_time gave the call k
NightOf(k) == get_nightly_time(config, TimeOfDay(k.time))

\* the call k passed the guards and was sized by the nightly branch
InNightlyBranch(k) ==
    /\ k # NoCall
    /\ k.plan \in {"Nightly", "SolarPlusNightly"}
    /\ guards_pass(config, k.max_power, k.current_soc, k.limit_soc)
    /\ NightOf(k).is_night

\* C22: every nonzero amps returned by the nightly branch (escalation, cached
\* reuse or fresh computation) is at least min_amps and at most
\* floor(budget / (phases x volts x efficiency)) of this call; a larger cached
\* value is returned cut down to it.
C22_NightlyWithinBudget ==
    (CallReturned /\ InNightlyBranch(call) /\ call.amps # 0)
        => /\ call.amps >= config.min_amps
           /\ call.amps <= max_amps_from_budget(config, call.max_power)

\* a cached value above this call's budget, returned cut down
C22_Witness ==
    /\ CallReturned /\ InNightlyBranch(call)
    /\ call.path = "cached_clamped"
    /\ call.amps = max_amps_from_budget(config, call.max_power)
    /\ nightly_state.cached_amps[1] > call.amps

\* the energy still to charge (Wh x 3600 / 100 x 100) and the denominator of
\* required_amps, both scaled by 36 x remaining seconds
EnergyNeeded(k) == config.vehicle_battery_capacity * (k.limit_soc - k.current_soc) * 36
PerAmp(k) == NightOf(k).remaining_time_s * config.volts * config.phases

\* C23: a fresh nightly computation returns
\* min(max(ceil(required_amps), min_amps), max_amps_from_budget), stores the
\* returned value in the cache, and, when max_amps_from_budget does not cut it
\* down, delivers at least the remaining energy in the remaining time.
C23_FreshComputation ==
    (CallReturned /\ call.path = "computed")
        => /\ call.amps = FreshAmps(call)
           /\ nightly_state = [last_calc_time |-> call.time, cached_amps |-> <<call.amps>>]
           /\ Max(LeastAmps(call), config.min_amps) <= max_amps_from_budget(config, call.max_power)
                 => call.amps * PerAmp(call) >= EnergyNeeded(call)

\* a computation that rounds a fractional requirement up, above min_amps and
\* below the budget
C23_Witness ==
    /\ CallReturned /\ call.path = "computed"
    /\ call.amps > config.min_amps
    /\ call.amps < max_amps_from_budget(config, call.max_power)
    /\ call.amps * PerAmp(call) > EnergyNeeded(call)

\* the call k reaches the nightly branch with less than 1.2 x poll_interval left
EndOfNightCall(k) ==
    /\ InNightlyBranch(k)
    /\ 10 * NightOf(k).remaining_time_s < 12 * config.poll_interval

\* C24: with less than 1.2 x poll_interval of night left the nightly branch
\* requests plan MaxSpeed, leaves the nightly state empty and returns
\* max_amps_from_budget; a recomputation only happens with at least
\* 1.2 x poll_interval > 0 remaining.
C24_EndOfNightEscalates ==
    CallReturned
        => /\ EndOfNightCall(call)
                => /\ call.writes = <<SetChargingPlan("MaxSpeed")>>
                   /\ nightly_state = reset
                   /\ call.amps = max_amps_from_budget(config, call.max_power)
           /\ call.path \in {"computed", "cached", "cached_clamped"}
                => /\ 10 * NightOf(call).remaining_time_s >= 12 * config.poll_interval
                   /\ NightOf(call).remaining_time_s > 0

\* an escalation at the very end of the window
C24_Witness ==
    /\ CallReturned /\ EndOfNightCall(call)
    /\ NightOf(call).remaining_time_s = 0
    /\ call.writes # <<>>

\* a call for a nightly plan outside the night window, or for another plan
OutsideNightOrOtherPlan(k) ==
    /\ k # NoCall
    /\ \/ k.plan \in MaxAvailablePlans
       \/ k.plan \in {"Nightly", "SolarPlusNightly"} /\ ~NightOf(k).is_night

\* C25 as stated: after a call for Nightly or SolarPlusNightly outside the
\* night window, and after a call for any other plan, the nightly state is
\* empty, whatever the SOC, limit and budget of the call.
C25_EmptyAfterEveryOtherCall ==
    (CallReturned /\ OutsideNightOrOtherPlan(call)) => nightly_state = reset

\* C25, amended: the same when the call passes the four guards.
C25_EmptyWhenGuardsPass ==
    (CallReturned /\ OutsideNightOrOtherPlan(call)
        /\ guards_pass(config, call.max_power, call.current_soc, call.limit_soc))
        => nightly_state = reset

\* a Nightly call after the end of the night, and the state empty
C25_Witness ==
    /\ CallReturned /\ call.plan = "Nightly" /\ ~NightOf(call).is_night
    /\ guards_pass(config, call.max_power, call.current_soc, call.limit_soc)
    /\ call.path = "not_night"
    /\ nightly_state = reset

\* C26: a call that fails one of the four guards returns 0 for every plan,
\* leaves the nightly state exactly as it was and requests no plan.
C26_FailedGuardHasNoEffect ==
    [][(call' # call /\ call' # NoCall
          /\ ~guards_pass(config, call'.max_power, call'.current_soc, call'.limit_soc))
        => /\ call'.fault = "none"
           /\ call'.amps = 0
           /\ call'.writes = <<>>
           /\ nightly_state' = nightly_state]_vars

\* a Nightly call at the end of the night that fails a guard, the cache kept
C26_Witness ==
    /\ call # NoCall /\ call.plan = "Nightly"
    /\ ~guards_pass(config, call.max_power, call.current_soc, call.limit_soc)
    /\ NightOf(call).is_night
    /\ 10 * NightOf(call).remaining_time_s < 12 * config.poll_interval
    /\ nightly_state.cached_amps # <<>>

\* C27: in every reachable nightly state, cached_amps is present exactly when
\* last_calc_time is non-zero.
C27_CachedIffTimed ==
    (nightly_state.cached_amps # <<>>) <=> (nightly_state.last_calc_time # 0)

\* a state with a cached value
C27_Witness ==
    /\ nightly_state.cached_amps # <<>>
    /\ nightly_state.last_calc_time = call.time

\* the last cycle reached step 4 with the classifier skipped because
\* was_manual was true, and the controller issued no write in it
SkippedClassifierNoWrite ==
    /\ ReachedStep4
    /\ cycle.was_manual_before
    /\ cycle.writes = <<>>
    /\ pc = "polling"

\* what the classifier of the next cycle returns if the charger's charging
\* flag and amps are then as the last cycle observed them
NextClassification ==
    handle_unexpected_charging_change(config, cycle.charging, cycle.charging_amps,
        remembered_charging_enabled, remembered_charging_amps, "on", now).result

\* C28: after a cycle in which the classifier was skipped because was_manual
\* was true and no write was issued, the remembered (charging, amps) is what
\* that cycle observed, so that with an unchanged charger the classifier of
\* the next cycle returns Expected and does not escalate to Manual.
C28_MemoryCurrentAfterSkippedClassifier ==
    SkippedClassifierNoWrite
        => /\ remembered_charging_enabled = cycle.charging
           /\ remembered_charging_amps = cycle.charging_amps
           /\ NextClassification = "Expected"

-----------------------------------------------------------------------------
(* Claims about the two resolutions of SolarPlusNightly (SpecFunctions) *)

\* C29: within one cycle the two resolutions of plan SolarPlusNightly agree,
\* also when the clock crosses an end of the night window between them: the
\* Nightly algorithm sizes the amps only on the Full budget, and the SolarOnly
\* rule only on the SolarOnly budget.
C29_ResolutionsAgree ==
    (call.fn = "solar_plus_nightly" /\ call.fault = "none")
        => /\ call.path \in {"escalate", "cached", "cached_clamped", "computed"}
                => call.ps = "Full"
           /\ call.path = "max_available" => call.ps = "SolarOnly"

====
